---- MODULE Spec2Model ----
(***************************************************************************)
(* Model of step2-with-script/read_csv.py: main() checks that              *)
(* sample_data.csv exists, reads it with pandas.read_csv and prints the    *)
(* shape, the column names, df.head() and df.describe().  The file system  *)
(* entry at the path can be changed by the environment between any two     *)
(* statements of main().                                                   *)
(***************************************************************************)
EXTENDS Integers, Sequences, FiniteSets, TLC

VARIABLES
    fs,          \* kind of file system entry at csv_file
    content,     \* the records of the file whenever a file is at csv_file
    pc,          \* line of main() to execute next, or "exited"
    out,         \* what has been written to standard output, in order
    df,          \* the DataFrame bound by line 15
    exitcode,    \* exit status of the interpreter, -1 while running
    raised,      \* exception pd.read_csv raised, "none" otherwise
    loads,       \* number of calls of pd.read_csv
    seenAtCheck, \* entry kind that os.path.exists saw at line 9
    envSteps     \* number of changes the environment has made

vars == <<fs, content, pc, out, df, exitcode, raised, loads, seenAtCheck, envSteps>>

\* ---------------------------------------------------------------- bounds
MaxCols == 2
MaxRows == 6
MaxEnvSteps == 1

\* DataFrame.head() is called without n, the library default is 5 rows
HeadRows == 5

\* ------------------------------------------------------------ input files
csv_file == "sample_data.csv"

Names == {"a", "b", ""}
Profiles == {"num", "text", "gap"}
EntryKinds == {"none", "file", "dir", "other"}

Min(a, b) == IF a < b THEN a ELSE b
Max(a, b) == IF a > b THEN a ELSE b

\* the field written in row i of a column of the given profile
Cell(profile, i) ==
    CASE profile = "num"  -> ToString(i)
      [] profile = "text" -> IF i = 1 THEN "x" ELSE ToString(i)
      [] profile = "gap"  -> IF i = 2 THEN "NA" ELSE ToString(i)

\* a well-formed file: header h, r data rows, column j filled by profile p[j]
ValidFile(h, p, r) ==
    [header |-> h,
     rows   |-> [i \in 1..r |-> [j \in 1..Len(h) |-> Cell(p[j], i)]]]

\* a file whose row k has one field more (d = 1) or less (d = -1) than the header
RaggedFile(h, r, k, d) ==
    [header |-> h,
     rows   |-> [i \in 1..r |->
                    [j \in 1..(IF i = k THEN Len(h) + d ELSE Len(h)) |-> ToString(i)]]]

EmptyFile == [header |-> <<>>, rows |-> <<>>]

\* header lines: a line made of one empty field is a blank line, which
\* read_csv skips, so it is no header
Headers == UNION {[1..n -> Names] : n \in 1..MaxCols} \ {<<"">>}

Files ==
    {ValidFile(h, p, r) : h \in Headers, p \in [1..MaxCols -> Profiles], r \in 0..MaxRows}
    \cup {RaggedFile(h, r, 1, 1) : h \in Headers, r \in 1..MaxRows}
    \cup {RaggedFile(h, r, r, 1) : h \in Headers, r \in 1..MaxRows}
    \cup {RaggedFile(h, r, r, -1) : h \in {g \in Headers : Len(g) >= 2}, r \in 1..MaxRows}
    \cup {EmptyFile}

\* ------------------------------------------------------- os.path.exists
\* os.path.exists is true for every entry kind stat() succeeds on
\* the test with its negation lost
PathExistsInverted(kind) == kind = "none"

PathExists(kind) == kind # "none"

\* ------------------------------------------------------------ pd.read_csv
IsNumber(s) == \E n \in 0..(MaxRows + 2) : ToString(n) = s
ToNumber(s) == CHOOSE n \in 0..(MaxRows + 2) : ToString(n) = s
IsMissing(s) == s \in {"", "NA"}

NaN == [k |-> "nan"]

\* the tokenizer compares every line after the first data line with the
\* field count of the line before it, and pads shorter lines
ExpectedFields(f) ==
    IF Len(f.rows) = 0 THEN Len(f.header)
    ELSE Max(Len(f.header), Len(f.rows[1]))

TooManyFields(f) ==
    \E i \in 2..Len(f.rows) : Len(f.rows[i]) > ExpectedFields(f)

\* the exception read_csv raises on the entry, "none" when it returns
ReadError(kind, f) ==
    CASE kind = "none" -> "FileNotFoundError"
      [] kind = "dir"  -> "IsADirectoryError"
      [] OTHER -> IF Len(f.header) = 0 THEN "EmptyDataError"
                  ELSE IF TooManyFields(f) THEN "ParserError"
                  ELSE "none"

\* an empty header field is named after its position; a repeated name
\* gets the number of its earlier occurrences as suffix
BaseName(h, i) == IF h[i] = "" THEN "Unnamed: " \o ToString(i - 1) ELSE h[i]

MangledNames(h) ==
    [i \in 1..Len(h) |->
        LET c == Cardinality({j \in 1..(i - 1) : BaseName(h, j) = BaseName(h, i)})
        IN  IF c = 0 THEN BaseName(h, i) ELSE BaseName(h, i) \o "." \o ToString(c)]

\* row i of the file padded with missing fields up to n fields
Padded(row, n) == [j \in 1..n |-> IF j <= Len(row) THEN row[j] ELSE ""]

\* dtype inferred for a sequence of fields
InferDtype(cells) ==
    IF Len(cells) = 0 THEN "object"
    ELSE IF \A i \in 1..Len(cells) : IsNumber(cells[i]) THEN "int64"
    ELSE IF \A i \in 1..Len(cells) : IsNumber(cells[i]) \/ IsMissing(cells[i]) THEN "float64"
    ELSE "object"

\* the value a field gets in a column of the given dtype
Convert(s, dtype) ==
    IF IsMissing(s) THEN NaN
    ELSE IF dtype = "int64" THEN [k |-> "int", v |-> ToNumber(s)]
    ELSE IF dtype = "float64" THEN [k |-> "float", v |-> ToNumber(s)]
    ELSE [k |-> "str", v |-> s]

\* the DataFrame read_csv returns for a file it accepts
ParseCsv(f) ==
    LET n       == ExpectedFields(f)
        lead    == n - Len(f.header)
        ncols   == Len(f.header)
        r       == Len(f.rows)
        field(i, j) == Padded(f.rows[i], n)[j]
        dtypes  == [j \in 1..ncols |-> InferDtype([i \in 1..r |-> field(i, lead + j)])]
    IN  [columns |-> MangledNames(f.header),
         dtypes  |-> dtypes,
         index   |-> [i \in 1..r |-> [j \in 1..lead |-> field(i, j)]],
         rows    |-> [i \in 1..r |->
                        [j \in 1..ncols |-> Convert(field(i, lead + j), dtypes[j])]]]

NoTable == [columns |-> <<>>, dtypes |-> <<>>, index |-> <<>>, rows |-> <<>>]

\* --------------------------------------------------- DataFrame accessors
\* rows and columns the wrong way round
ShapeSwapped(t) == <<Len(t.columns), Len(t.rows)>>

Shape(t) == <<Len(t.rows), Len(t.columns)>>

\* the names in reverse order
ColumnsReversed(t) ==
    [j \in 1..Len(t.columns) |-> t.columns[Len(t.columns) + 1 - j]]

Columns(t) == t.columns

\* tail() in place of head()
DfTail(t) ==
    SubSeq(t.rows, Len(t.rows) - Min(HeadRows, Len(t.rows)) + 1, Len(t.rows))

DfHead(t) == SubSeq(t.rows, 1, Min(HeadRows, Len(t.rows)))

IsNumericDtype(d) == d \in {"int64", "float64"}

\* describe(include="all"): every column whatever its dtype
DescribedColumnsAll(t) == [j \in 1..Len(t.columns) |-> j]

\* positions of the columns describe() reports: the numeric ones, or every
\* column when the frame has no numeric column
DescribedColumns(t) ==
    LET idx == [j \in 1..Len(t.columns) |-> j]
        numeric == SelectSeq(idx, LAMBDA j : IsNumericDtype(t.dtypes[j]))
    IN  IF Len(numeric) = 0 THEN idx ELSE numeric

CountValues(t, j) == Cardinality({i \in 1..Len(t.rows) : t.rows[i][j] # NaN})

Describe(t) ==
    LET cols == DescribedColumns(t)
        numeric == \E j \in 1..Len(t.columns) : IsNumericDtype(t.dtypes[j])
    IN  [columns |-> [c \in 1..Len(cols) |-> t.columns[cols[c]]],
         stats   |-> IF numeric
                     THEN <<"count", "mean", "std", "min", "25%", "50%", "75%", "max">>
                     ELSE <<"count", "unique", "top", "freq">>,
         count   |-> [c \in 1..Len(cols) |-> CountValues(t, cols[c])]]

\* ------------------------------------------------------------- print()
Line(tag, text, val) == [tag |-> tag, text |-> text, val |-> val]

Tags(o) == [i \in 1..Len(o) |-> o[i].tag]

\* ------------------------------------------------------------------ main
Init ==
    /\ fs \in EntryKinds
    /\ content \in Files
    /\ pc = "l9"
    /\ out = <<>>
    /\ df = NoTable
    /\ exitcode = -1
    /\ raised = "none"
    /\ loads = 0
    /\ seenAtCheck = "unchecked"
    /\ envSteps = 0

\* line 9: if not os.path.exists(csv_file)
CheckExists ==
    /\ pc = "l9"
    /\ seenAtCheck' = fs
    /\ pc' = IF PathExists(fs) THEN "l14" ELSE "l10"
    /\ UNCHANGED <<fs, content, out, df, exitcode, raised, loads, envSteps>>

\* the not-found branch leaving through sys.exit(1)
PrintNotFoundExit1 ==
    /\ pc = "l10"
    /\ out' = Append(out, Line("error", "Error: " \o csv_file \o " not found!", <<>>))
    /\ pc' = "exited"
    /\ exitcode' = 1
    /\ UNCHANGED <<fs, content, df, raised, loads, seenAtCheck, envSteps>>

\* lines 10-11: print the message and return; the interpreter exits with 0
PrintNotFound ==
    /\ pc = "l10"
    /\ out' = Append(out, Line("error", "Error: " \o csv_file \o " not found!", <<>>))
    /\ pc' = "exited"
    /\ exitcode' = 0
    /\ UNCHANGED <<fs, content, df, raised, loads, seenAtCheck, envSteps>>

\* line 14
PrintReading ==
    /\ pc = "l14"
    /\ out' = Append(out, Line("reading", "Reading " \o csv_file \o "...", <<>>))
    /\ pc' = "l15"
    /\ UNCHANGED <<fs, content, df, exitcode, raised, loads, seenAtCheck, envSteps>>

\* what opening the entry gives read_csv: a non-regular entry either fails
\* to open or delivers bytes like a file
Opened == IF fs = "other" THEN {"file", "oserror"} ELSE {fs}

\* line 15, read_csv returns
ReadCsv ==
    /\ pc = "l15"
    /\ \E o \in Opened :
        /\ o # "oserror"
        /\ ReadError(o, content) = "none"
    /\ df' = ParseCsv(content)
    /\ loads' = loads + 1
    /\ pc' = "l18"
    /\ UNCHANGED <<fs, content, out, exitcode, raised, seenAtCheck, envSteps>>

\* the exception swallowed by a handler around line 15, main() going on
ReadCsvRaisesCaught ==
    /\ pc = "l15"
    /\ \E o \in Opened :
        /\ o = "oserror" \/ ReadError(o, content) # "none"
        /\ raised' = IF o = "oserror" THEN "OSError" ELSE ReadError(o, content)
    /\ loads' = loads + 1
    /\ pc' = "l18"
    /\ UNCHANGED <<fs, content, out, df, exitcode, seenAtCheck, envSteps>>

\* line 15, read_csv raises: nothing in main() catches, the traceback goes
\* to standard error and the interpreter exits with 1
ReadCsvRaises ==
    /\ pc = "l15"
    /\ \E o \in Opened :
        /\ o = "oserror" \/ ReadError(o, content) # "none"
        /\ raised' = IF o = "oserror" THEN "OSError" ELSE ReadError(o, content)
    /\ loads' = loads + 1
    /\ pc' = "exited"
    /\ exitcode' = 1
    /\ UNCHANGED <<fs, content, out, df, seenAtCheck, envSteps>>

\* line 18
PrintShape ==
    /\ pc = "l18"
    /\ out' = Append(out, Line("shape", "\nDataset shape: ", Shape(df)))
    /\ pc' = "l19"
    /\ UNCHANGED <<fs, content, df, exitcode, raised, loads, seenAtCheck, envSteps>>

\* line 19 followed by line 23, the preview left out
PrintColumnsSkipsPreview ==
    /\ pc = "l19"
    /\ out' = Append(out, Line("columns", "Columns: ", Columns(df)))
    /\ pc' = "l23"
    /\ UNCHANGED <<fs, content, df, exitcode, raised, loads, seenAtCheck, envSteps>>

\* line 19
PrintColumns ==
    /\ pc = "l19"
    /\ out' = Append(out, Line("columns", "Columns: ", Columns(df)))
    /\ pc' = "l20"
    /\ UNCHANGED <<fs, content, df, exitcode, raised, loads, seenAtCheck, envSteps>>

\* line 20
PrintHeadTitle ==
    /\ pc = "l20"
    /\ out' = Append(out, Line("preview_title", "\nFirst 5 rows:", <<>>))
    /\ pc' = "l21"
    /\ UNCHANGED <<fs, content, df, exitcode, raised, loads, seenAtCheck, envSteps>>

\* line 21
PrintHead ==
    /\ pc = "l21"
    /\ out' = Append(out, Line("preview", "", DfHead(df)))
    /\ pc' = "l23"
    /\ UNCHANGED <<fs, content, df, exitcode, raised, loads, seenAtCheck, envSteps>>

\* line 23
PrintStatsTitle ==
    /\ pc = "l23"
    /\ out' = Append(out, Line("statistics_title", "\nBasic statistics:", <<>>))
    /\ pc' = "l24"
    /\ UNCHANGED <<fs, content, df, exitcode, raised, loads, seenAtCheck, envSteps>>

\* line 24, then main() returns and the interpreter exits with 0
PrintDescribe ==
    /\ pc = "l24"
    /\ out' = Append(out, Line("statistics", "", Describe(df)))
    /\ pc' = "exited"
    /\ exitcode' = 0
    /\ UNCHANGED <<fs, content, df, raised, loads, seenAtCheck, envSteps>>

\* ----------------------------------------------------------- environment
\* another process creates an entry at csv_file
EnvCreate ==
    /\ pc # "exited"
    /\ envSteps < MaxEnvSteps
    /\ fs = "none"
    /\ \E k \in EntryKinds \ {"none"} : fs' = k
    /\ envSteps' = envSteps + 1
    /\ UNCHANGED <<content, pc, out, df, exitcode, raised, loads, seenAtCheck>>

\* another process removes the entry at csv_file
EnvRemove ==
    /\ pc # "exited"
    /\ envSteps < MaxEnvSteps
    /\ fs # "none"
    /\ fs' = "none"
    /\ envSteps' = envSteps + 1
    /\ UNCHANGED <<content, pc, out, df, exitcode, raised, loads, seenAtCheck>>

Next ==
    \/ CheckExists
    \/ PrintNotFound
    \/ PrintReading
    \/ ReadCsv
    \/ ReadCsvRaises
    \/ PrintShape
    \/ PrintColumns
    \/ PrintHeadTitle
    \/ PrintHead
    \/ PrintStatsTitle
    \/ PrintDescribe
    \/ EnvCreate
    \/ EnvRemove

Spec == Init /\ [][Next]_vars

\* ====================================================== checked properties
Printed(tag) == \E i \in 1..Len(out) : out[i].tag = tag

Item(tag) == out[CHOOSE i \in 1..Len(out) : out[i].tag = tag]

Range(q) == {q[i] : i \in 1..Len(q)}

ReportBlocks == {"shape", "columns", "preview", "statistics"}

\* every data row has as many fields as the header, which is not empty
ValidCsv(f) ==
    /\ Len(f.header) >= 1
    /\ \A i \in 1..Len(f.rows) : Len(f.rows[i]) = Len(f.header)

\* a later row longer than the header and the first row allow
Inconsistent(f) ==
    /\ Len(f.header) >= 1
    /\ \E i \in 2..Len(f.rows) :
          /\ Len(f.rows[i]) > Len(f.header)
          /\ Len(f.rows[i]) > Len(f.rows[1])

\* C1: when sample_data.csv is absent at the existence check, main() writes
\* the single line "Error: sample_data.csv not found!", never calls
\* read_csv, prints no part of the report, and the exit code is 0.
NotFoundReportedOnce ==
    seenAtCheck = "none" =>
        /\ pc \in {"l10", "exited"}
        /\ loads = 0
        /\ df = NoTable
        /\ raised = "none"
        /\ pc = "l10" => (out = <<>> /\ exitcode = -1)
        /\ pc = "exited" =>
              /\ Tags(out) = <<"error">>
              /\ out[1].text = "Error: sample_data.csv not found!"
              /\ exitcode = 0

NotFoundReportedOnceWitness ==
    seenAtCheck = "none" /\ pc = "exited" /\ Len(out) = 1

\* C2 as stated: the exit code is 0 in every run, whatever the input file
\* is: absent, present and well-formed, or present and malformed (here with
\* the entry at the path left alone by the environment during the run).
ExitCodeAlwaysZero ==
    (pc = "exited" /\ envSteps = 0 /\ seenAtCheck \in {"none", "file"}) =>
        exitcode = 0

\* C2 as amended: a run that ends without an exception (the not-found
\* message, or the complete report) has exit code 0; a run in which
\* read_csv raises has exit code 1, and read_csv raises on every
\* inconsistent or empty file it reads.
ExitCodeFollowsOutcome ==
    /\ pc # "exited" => exitcode = -1
    /\ pc = "exited" =>
          /\ exitcode = (IF raised = "none" THEN 0 ELSE 1)
          /\ seenAtCheck = "none" => exitcode = 0
          /\ Printed("statistics") => exitcode = 0
          /\ (loads = 1 /\ (Inconsistent(content) \/ content = EmptyFile)) => exitcode = 1

ExitCodeFollowsOutcomeWitness ==
    /\ pc = "exited"
    /\ loads = 1
    /\ Inconsistent(content)
    /\ raised = "ParserError"
    /\ exitcode = 1

\* C3 as stated: the existence gate lets main() go on to the load exactly
\* when a regular file is at the path.
GateOnlyRegularFile ==
    seenAtCheck # "unchecked" =>
        ((pc # "l10" /\ ~Printed("error")) <=> seenAtCheck = "file")

\* a column of the table holding at least one text value
HasText(t, j) == \E i \in 1..Len(t.rows) : t.rows[i][j].k = "str"

\* a column of the table holding numbers (or gaps) only, in at least one row
AllNumeric(t, j) == Len(t.rows) >= 1 /\ ~HasText(t, j)

\* C4 as stated: a column containing any non-numeric value is absent from
\* the statistics block, for every loaded table, and is still present in
\* the columns list and in the preview.
TextColumnsNeverDescribed ==
    Printed("statistics") =>
        \A j \in 1..Len(df.columns) :
            HasText(df, j) =>
                /\ df.columns[j] \notin Range(Item("statistics").val.columns)
                /\ df.columns[j] \in Range(Item("columns").val)
                /\ \A i \in 1..Len(Item("preview").val) :
                      Len(Item("preview").val[i]) = Len(df.columns)

\* C4 as amended: when the loaded table has at least one numeric column,
\* the statistics block holds exactly the numeric columns, so that a column
\* with any text value is absent from it while present in the columns list
\* and the preview; when the table has no numeric column, the statistics
\* block describes every column (count, unique, top, freq).
TextColumnsDescribedOnlyAlone ==
    Printed("statistics") =>
        LET st == Item("statistics").val
        IN  IF \E j \in 1..Len(df.columns) : AllNumeric(df, j)
            THEN /\ \A j \in 1..Len(df.columns) :
                       /\ df.columns[j] \in Range(st.columns) <=> ~HasText(df, j)
                       /\ df.columns[j] \in Range(Item("columns").val)
                 /\ \A i \in 1..Len(Item("preview").val) :
                       Len(Item("preview").val[i]) = Len(df.columns)
                 /\ st.stats[2] = "mean"
            ELSE /\ st.columns = df.columns
                 /\ st.stats = <<"count", "unique", "top", "freq">>

TextColumnsDescribedOnlyAloneWitness ==
    /\ Printed("statistics")
    /\ \E j \in 1..Len(df.columns) : HasText(df, j)
    /\ \E j \in 1..Len(df.columns) : AllNumeric(df, j)
    /\ Len(Item("statistics").val.columns) = 1

ColumnsEqualHeader ==
    (Printed("columns") /\ ValidCsv(content)) =>
        Item("columns").val = content.header

DistinctNonEmpty(h) ==
    /\ \A i \in 1..Len(h) : h[i] # ""
    /\ \A i, j \in 1..Len(h) : h[i] = h[j] => i = j

\* C6 as amended: for every valid file whose header names are non-empty and
\* pairwise distinct the columns line equals the header, in header order.
ColumnsEqualDistinctHeader ==
    (Printed("columns") /\ ValidCsv(content) /\ DistinctNonEmpty(content.header)) =>
        Item("columns").val = content.header

ColumnsEqualDistinctHeaderWitness ==
    /\ Printed("columns")
    /\ ValidCsv(content)
    /\ content.header = <<"b", "a">>

\* the table value v is what the file's field s reads as
ReadsAs(v, s) ==
    \/ v.k \in {"int", "float"} /\ ToString(v.v) = s
    \/ v.k = "str" /\ v.v = s
    \/ v.k = "nan" /\ s = "NA"

Blocks(o) == SelectSeq(Tags(o), LAMBDA t : t \in ReportBlocks)

\* C8 as stated: after a successful load the report is written as shape
\* line, columns line, preview block, statistics block, each once, and the
\* shape line is the first thing the program writes.
ShapeLineWrittenFirst ==
    (loads = 1 /\ raised = "none" /\ pc = "exited") =>
        /\ Blocks(out) = <<"shape", "columns", "preview", "statistics">>
        /\ out[1].tag = "shape"

ReportTags ==
    <<"reading", "shape", "columns", "preview_title", "preview",
      "statistics_title", "statistics">>

\* C8 as amended: after a successful load the report is written as shape
\* line, columns line, preview block, statistics block, each once, and the
\* shape line is the second thing the program writes, after the line
\* "Reading sample_data.csv...".
ShapeLineFollowsReading ==
    (loads = 1 /\ raised = "none") =>
        /\ Len(out) >= 1
        /\ Len(out) <= Len(ReportTags)
        /\ Tags(out) = SubSeq(ReportTags, 1, Len(out))
        /\ out[1].text = "Reading sample_data.csv..."
        /\ pc = "exited" =>
              /\ Blocks(out) = <<"shape", "columns", "preview", "statistics">>
              /\ out[2].tag = "shape"

ShapeLineFollowsReadingWitness ==
    /\ loads = 1
    /\ raised = "none"
    /\ pc = "exited"
    /\ Len(out) = 7

\* C9: when read_csv fails with a parse error nothing catches it: read_csv
\* was called once and is not called again, no block of the report is
\* written, and the run has ended with a failure status.
ParseErrorEndsRun ==
    /\ loads <= 1
    /\ raised = "ParserError" =>
          /\ Inconsistent(content)
          /\ pc = "exited"
          /\ loads = 1
          /\ exitcode = 1
          /\ df = NoTable
          /\ \A b \in ReportBlocks : ~Printed(b)

ParseErrorEndsRunWitness ==
    raised = "ParserError" /\ pc = "exited" /\ Len(content.rows) >= 2

\* C10 as stated: a file that is missing when the program needs it, at the
\* existence check or at the read, ends the run with the not-found message
\* and a normal exit, never with an uncaught failure.
MissingFileAlwaysReported ==
    (pc = "exited" /\ (seenAtCheck = "none" \/ raised = "FileNotFoundError")) =>
        /\ exitcode = 0
        /\ Tags(out) = <<"error">>

====
